---- MODULE Spec2Model ----
(***************************************************************************)
(* Configuration and logging bootstrap of the two tools of the repository *)
(* (src/quackmetadata/config.py and src/quacktool/config.py).             *)
(*                                                                         *)
(* Both modules live in one Python process: each has its own singleton    *)
(* _config and its own _file_handlers registry, and both mutate the one   *)
(* process-wide root logger.  A handler object is an index into the       *)
(* sequence handlers; a configuration object is a record with an identity *)
(* field id (0 is None).                                                  *)
(***************************************************************************)
EXTENDS Integers, Sequences, FiniteSets, TLC

VARIABLES
    config,         \* tool -> the module global _config (NoneConfig when None)
    rootLevel,      \* logging.getLogger().level
    rootHandlers,   \* logging.getLogger().handlers: sequence of handler ids
    handlers,       \* every handler object created so far, by id
    file_handlers,  \* tool -> the module global _file_handlers: sequence of ids
    loaderCalls,    \* tool -> number of load_config() calls made by the tool
    updates,        \* number of update_tool_config() calls made so far
    running,        \* FALSE once the interpreter has started to exit
    atexitPending,  \* tools whose registered _close_file_handlers has not run
    source,         \* the host configuration load_config() reads
    last            \* the last call: operation, inputs and what came back

vars == <<config, rootLevel, rootHandlers, handlers, file_handlers,
          loaderCalls, updates, running, atexitPending, source, last>>

-----------------------------------------------------------------------------
(* Bounds of the model *)

MaxLoads == 2       \* load_config() calls in one run, both tools together
MaxUpdates == 1     \* update_tool_config() calls in one run

-----------------------------------------------------------------------------
(* The logging facility: levels and the attribute table of the module *)

CRITICAL == 50
ERROR == 40
WARNING == 30
INFO == 20
DEBUG == 10
NOTSET == 0

\* The names logging._nameToLevel knows.
StandardLevelNames ==
    {"CRITICAL", "FATAL", "ERROR", "WARN", "WARNING", "INFO", "DEBUG", "NOTSET"}

IntAttr(n) == [type |-> "int", val |-> n]
FunctionAttr == [type |-> "function", val |-> 0]
StrAttr == [type |-> "str", val |-> 0]

\* getattr(logging, name, logging.INFO): the attribute of the logging module
\* called name, whatever it is, and INFO when the module has none.
LoggingGetattr(name) ==
    CASE name = "CRITICAL" -> IntAttr(CRITICAL)
      [] name = "FATAL" -> IntAttr(CRITICAL)
      [] name = "ERROR" -> IntAttr(ERROR)
      [] name = "WARNING" -> IntAttr(WARNING)
      [] name = "WARN" -> IntAttr(WARNING)
      [] name = "INFO" -> IntAttr(INFO)
      [] name = "DEBUG" -> IntAttr(DEBUG)
      [] name = "NOTSET" -> IntAttr(NOTSET)
      [] name \in {"debug", "info", "warning", "error", "critical"} -> FunctionAttr
      [] name = "BASIC_FORMAT" -> StrAttr
      [] name \in {"raiseExceptions", "logThreads"} -> IntAttr(1)
      [] OTHER -> IntAttr(INFO)

\* logging._checkLevel(level), as Logger.setLevel and Handler.setLevel call it:
\* an int passes, a str that is no level name is a ValueError, anything else a
\* TypeError.
CheckLevel(level) ==
    CASE level.type = "int" -> [ok |-> TRUE, exc |-> "", val |-> level.val]
      [] level.type = "str" -> [ok |-> FALSE, exc |-> "ValueError", val |-> 0]
      [] OTHER -> [ok |-> FALSE, exc |-> "TypeError", val |-> 0]

-----------------------------------------------------------------------------
(* Handler objects *)

StreamHandler ==
    [kind |-> "stream", baseFilename |-> <<>>, level |-> NOTSET,
     stream |-> "stderr", closed |-> FALSE, closeCalls |-> 0, releases |-> 0]

FileHandler(filename) ==
    [kind |-> "file", baseFilename |-> filename, level |-> NOTSET,
     stream |-> "file", closed |-> FALSE, closeCalls |-> 0, releases |-> 0]

\* isinstance(h, logging.FileHandler)
IsFileHandler(h) == h.kind = "file"

\* isinstance(h, logging.StreamHandler): FileHandler is a subclass.
IsStreamHandler(h) == h.kind \in {"stream", "file"}

\* isinstance(h, StreamHandler) and not isinstance(h, FileHandler)
IsConsoleHandler(h) == IsStreamHandler(h) /\ ~IsFileHandler(h)

\* handler.close(): a file handler gives up its stream if it has one; every
\* handler is flagged closed.  closeCalls counts the calls, releases the
\* times a stream was actually given up.
Close(h) ==
    IF IsFileHandler(h) /\ h.stream # "None"
    THEN [h EXCEPT !.stream = "None", !.closed = TRUE,
                   !.closeCalls = @ + 1, !.releases = @ + 1]
    ELSE [h EXCEPT !.closed = TRUE, !.closeCalls = @ + 1]

\* A file handler that still holds its file.
IsOpen(h) == IsFileHandler(h) /\ h.stream # "None"

-----------------------------------------------------------------------------
(* Settings models and configuration objects *)

Tools == {"quackmetadata", "quacktool"}

QuackMetadataConfig ==
    [default_prompt_template |-> "generic", max_retries |-> 3,
     output_format |-> "json", temp_dir |-> "./temp",
     output_dir |-> "./output", log_level |-> "INFO"]

QuackToolConfig ==
    [default_quality |-> 80, default_format |-> "webp", temp_dir |-> "./temp",
     output_dir |-> "./output", log_level |-> "INFO"]

\* Model().model_dump(): the defaults of the tool's settings model as a dict.
ModelDump(t) == IF t = "quackmetadata" THEN QuackMetadataConfig ELSE QuackToolConfig

\* A tool section: absent, a dict, or an object read by attribute.
Absent == [kind |-> "absent", items |-> <<>>]
Dict(items) == [kind |-> "dict", items |-> items]
Obj(items) == [kind |-> "obj", items |-> items]

\* The module global _config before the first get_config().
NoneConfig == [id |-> 0, shape |-> "none", section |-> Absent, logs_dir |-> ""]

IsNone(c) == c.id = 0

-----------------------------------------------------------------------------
(* The program state as one record, so that a call can be composed of the
   calls it makes *)

Cur ==
    [config |-> config, rootLevel |-> rootLevel, rootHandlers |-> rootHandlers,
     handlers |-> handlers, file_handlers |-> file_handlers,
     loaderCalls |-> loaderCalls]

\* What a call hands back: the state it leaves, whether it returned or raised,
\* the configuration object and the section it returned, and what it met on
\* the way (the branch it took, the filesystem outcome, the section as the
\* loader delivered it and the level name it read).
Result(s, outcome, exc, cfg, branch, fs, loaded, level_name) ==
    [s |-> s, outcome |-> outcome, exc |-> exc, cfg |-> cfg, branch |-> branch,
     fs |-> fs, loaded |-> loaded, level_name |-> level_name,
     section |-> Absent]

\* id of the next configuration object load_config() creates.
NewId(s) == 1 + s.loaderCalls["quackmetadata"] + s.loaderCalls["quacktool"]

\* root_logger.addHandler(h) for a handler object created just now.
AddNewHandler(s, h) ==
    [s EXCEPT !.handlers = Append(@, h),
              !.rootHandlers = Append(@, Len(s.handlers) + 1)]

\* Ids of the handlers attached to the root logger.
RootIds(s) == {s.rootHandlers[j] : j \in DOMAIN s.rootHandlers}

\* RemoveAndClose with the close() left out: the handlers are only detached.
RemoveWithoutClose(s, ids) ==
    [s EXCEPT !.rootHandlers = SelectSeq(@, LAMBDA i : i \notin ids)]

\* for h in handlers[:]: removeHandler(h); h.close(), for the handlers of the
\* root logger whose ids are in ids.
RemoveAndClose(s, ids) ==
    [s EXCEPT
       !.rootHandlers = SelectSeq(@, LAMBDA i : i \notin ids),
       !.handlers = [i \in DOMAIN @ |->
                       IF i \in RootIds(s) \cap ids THEN Close(@[i]) ELSE @[i]]]

-----------------------------------------------------------------------------
(* initialize_config *)

\* EnsureSection with the attribute-object branch forgotten.
EnsureSectionDictOnly(quack_config, t) ==
    IF quack_config.shape = "dict" /\ quack_config.section.kind = "absent"
    THEN [quack_config EXCEPT !.section = Dict(ModelDump(t))]
    ELSE quack_config

\* Lines 95-106: the tool's section is created from the model's defaults when
\* custom has none, under either shape of custom, and is left as it is
\* otherwise.
EnsureSection(quack_config, t) ==
    IF quack_config.shape = "dict"
    THEN IF quack_config.section.kind = "absent"
         THEN [quack_config EXCEPT !.section = Dict(ModelDump(t))]
         ELSE quack_config
    ELSE IF quack_config.section.kind = "absent"
         THEN [quack_config EXCEPT !.section = Dict(ModelDump(t))]
         ELSE quack_config

\* Lines 109-113: section.get("log_level", "INFO") for a dict,
\* getattr(section, "log_level", "INFO") for anything else.
LogLevelName(section) ==
    IF "log_level" \in DOMAIN section.items
    THEN section.items["log_level"]
    ELSE "INFO"

\* BasicConfig without force=True: a root logger that has handlers is left
\* alone.
BasicConfigNoForce(s, log_level) ==
    LET added == AddNewHandler(s, StreamHandler)
        chk == CheckLevel(log_level)
    IN IF s.rootHandlers # <<>>
       THEN [s |-> s, ok |-> TRUE, exc |-> ""]
       ELSE IF chk.ok
       THEN [s |-> [added EXCEPT !.rootLevel = chk.val], ok |-> TRUE, exc |-> ""]
       ELSE [s |-> added, ok |-> FALSE, exc |-> chk.exc]

\* Line 119: logging.basicConfig(level=log_level, force=True).  Every handler
\* of the root logger is removed and closed, a new StreamHandler is added, and
\* only then is the level set, which is where a bad level raises.
BasicConfig(s, log_level) ==
    LET cleared == RemoveAndClose(s, RootIds(s))
        added == AddNewHandler(cleared, StreamHandler)
        chk == CheckLevel(log_level)
    IN IF chk.ok
       THEN [s |-> [added EXCEPT !.rootLevel = chk.val], ok |-> TRUE, exc |-> ""]
       ELSE [s |-> added, ok |-> FALSE, exc |-> chk.exc]

\* Lines 117-127: the branch taken when PYTEST_CURRENT_TEST is set.
TestBranch(s, quack_config, log_level, in, level_name) ==
    LET bc == BasicConfig(s, log_level)
    IN IF ~bc.ok
       THEN Result(bc.s, "raised", bc.exc, NoneConfig, "test", "none",
                   in.loaded.section, level_name)
       ELSE IF ~in.mkdirOk
       THEN Result(bc.s, "raised", "OSError", NoneConfig, "test", "mkdir_failed",
                   in.loaded.section, level_name)
       ELSE Result(bc.s, "returned", "", quack_config, "test", "mkdir_ok",
                   in.loaded.section, level_name)

\* Lines 135-142: a console handler is added when the root logger has none.
EnsureConsoleHandler(s, level) ==
    IF \E j \in DOMAIN s.rootHandlers : IsConsoleHandler(s.handlers[s.rootHandlers[j]])
    THEN s
    ELSE AddNewHandler(s, [StreamHandler EXCEPT !.level = level])

\* RemoveFileHandlers that detaches the file handlers without closing them.
RemoveFileHandlersUnclosed(s) ==
    [s EXCEPT !.rootHandlers =
                 SelectSeq(@, LAMBDA i : ~IsFileHandler(s.handlers[i]))]

\* RemoveFileHandlers with the removal loop left out.
RemoveFileHandlersKept(s) == s

\* Lines 145-148: every file handler of the root logger is removed and closed.
RemoveFileHandlers(s) ==
    RemoveAndClose(s, {i \in RootIds(s) : IsFileHandler(s.handlers[i])})

\* Lines 155-159: paths.logs_dir when the attribute exists, "./logs" otherwise.
LogsDir(quack_config) ==
    IF quack_config.logs_dir # "" THEN quack_config.logs_dir ELSE "./logs"

\* Line 165: Path(logs_dir) / "<tool>.log"
LogFile(logs_dir, t) == <<logs_dir, t, ".log">>

\* AttachFileHandler with one _file_handlers list shared by both modules.
AttachFileHandlerSharedRegistry(s, t, log_file, level) ==
    LET added == AddNewHandler(s, [FileHandler(log_file) EXCEPT !.level = level])
    IN [added EXCEPT !.file_handlers["quackmetadata"] =
                        Append(@, Len(added.handlers))]

\* AttachFileHandler without the append to _file_handlers.
AttachFileHandlerUntracked(s, t, log_file, level) ==
    AddNewHandler(s, [FileHandler(log_file) EXCEPT !.level = level])

\* Lines 167-170: the new file handler is attached and tracked.
AttachFileHandler(s, t, log_file, level) ==
    LET added == AddNewHandler(s, [FileHandler(log_file) EXCEPT !.level = level])
    IN [added EXCEPT !.file_handlers[t] = Append(@, Len(added.handlers))]

\* NormalBranch without the try/except around the opening of the log file.
NormalBranchOpenRaises(s, t, quack_config, log_level, in, level_name) ==
    LET chk == CheckLevel(log_level)
        s1 == [s EXCEPT !.rootLevel = chk.val]
        s2 == EnsureConsoleHandler(s1, chk.val)
        s3 == RemoveAndClose(s2, {i \in RootIds(s2) : IsFileHandler(s2.handlers[i])})
        s4 == AddNewHandler(s3, [FileHandler(LogFile(LogsDir(quack_config), t))
                                   EXCEPT !.level = chk.val])
    IN IF ~chk.ok
       THEN Result(s, "raised", chk.exc, NoneConfig, "normal", "none",
                   in.loaded.section, level_name)
       ELSE IF ~in.mkdirOk
       THEN Result(s3, "raised", "OSError", NoneConfig, "normal", "mkdir_failed",
                   in.loaded.section, level_name)
       ELSE IF ~in.openOk
       THEN Result(s3, "raised", "OSError", NoneConfig, "normal", "open_failed",
                   in.loaded.section, level_name)
       ELSE Result([s4 EXCEPT !.file_handlers[t] = Append(@, Len(s4.handlers))],
                   "returned", "", quack_config, "normal", "open_ok",
                   in.loaded.section, level_name)

\* Lines 131-176: the normal branch.
NormalBranch(s, t, quack_config, log_level, in, level_name) ==
    LET chk == CheckLevel(log_level)
        s1 == [s EXCEPT !.rootLevel = chk.val]
        s2 == EnsureConsoleHandler(s1, chk.val)
        s3 == RemoveFileHandlers(s2)
        s4 == AttachFileHandler(s3, t, LogFile(LogsDir(quack_config), t), chk.val)
    IN IF ~chk.ok
       THEN Result(s, "raised", chk.exc, NoneConfig, "normal", "none",
                   in.loaded.section, level_name)
       ELSE IF ~in.mkdirOk
       THEN Result(s3, "raised", "OSError", NoneConfig, "normal", "mkdir_failed",
                   in.loaded.section, level_name)
       ELSE IF ~in.openOk
       THEN Result(s3, "returned", "", quack_config, "normal", "open_failed",
                   in.loaded.section, level_name)
       ELSE Result(s4, "returned", "", quack_config, "normal", "open_ok",
                   in.loaded.section, level_name)

RECURSIVE RemoveSteps(_, _)
\* Lines 145-148 one statement at a time: for each handler of the snapshot
\* list(root_logger.handlers) that is a file handler, the state after
\* removeHandler() and the state after close().
RemoveSteps(s, snapshot) ==
    IF snapshot = <<>>
    THEN <<>>
    ELSE LET h == Head(snapshot)
             removed == [s EXCEPT !.rootHandlers = SelectSeq(@, LAMBDA i : i # h)]
             closed == [removed EXCEPT !.handlers[h] = Close(@)]
         IN IF IsFileHandler(s.handlers[h])
            THEN <<removed, closed>> \o RemoveSteps(closed, Tail(snapshot))
            ELSE RemoveSteps(s, Tail(snapshot))

\* NormalBranchSteps with the new log file opened and attached before the
\* old file handlers are removed.
NormalBranchStepsAttachFirst(s, t, quack_config, level, in) ==
    LET s1 == [s EXCEPT !.rootLevel = level]
        s2 == EnsureConsoleHandler(s1, level)
        old == s2.rootHandlers
        opened == [s2 EXCEPT !.handlers =
                     Append(@, FileHandler(LogFile(LogsDir(quack_config), t)))]
        new == Len(opened.handlers)
        leveled == [opened EXCEPT !.handlers[new].level = level]
        attached == [leveled EXCEPT !.rootHandlers = Append(@, new)]
        tracked == [attached EXCEPT !.file_handlers[t] = Append(@, new)]
    IN IF in.mkdirOk /\ in.openOk
       THEN <<s1, s2, opened, leveled, attached, tracked>>
            \o RemoveSteps(tracked, old)
       ELSE <<s1, s2>> \o RemoveSteps(s2, old)

\* Lines 131-170 one statement at a time, for a level setLevel() accepts: the
\* states after setLevel(), after the console handler is ensured, after each
\* removeHandler() and close() of the loop and, when the directory and the
\* file can be made, after FileHandler() opened the file, after its
\* setLevel(), after addHandler() and after the append to _file_handlers.
NormalBranchSteps(s, t, quack_config, level, in) ==
    LET s1 == [s EXCEPT !.rootLevel = level]
        s2 == EnsureConsoleHandler(s1, level)
        loop == RemoveSteps(s2, s2.rootHandlers)
        s3 == IF loop = <<>> THEN s2 ELSE loop[Len(loop)]
        opened == [s3 EXCEPT !.handlers =
                     Append(@, FileHandler(LogFile(LogsDir(quack_config), t)))]
        new == Len(opened.handlers)
        leveled == [opened EXCEPT !.handlers[new].level = level]
        attached == [leveled EXCEPT !.rootHandlers = Append(@, new)]
        tracked == [attached EXCEPT !.file_handlers[t] = Append(@, new)]
    IN <<s1, s2>> \o loop
       \o (IF in.mkdirOk /\ in.openOk
           THEN <<opened, leveled, attached, tracked>>
           ELSE <<>>)

\* initialize_config that resets _config only after the loader has returned.
initialize_config_late_reset(s, t, in) ==
    LET s0 == [s EXCEPT !.loaderCalls[t] = @ + 1]
        s1 == [s0 EXCEPT !.config[t] = NoneConfig]
        quack_config == EnsureSection([in.loaded EXCEPT !.id = NewId(s)], t)
        log_level_name == LogLevelName(quack_config.section)
        log_level == LoggingGetattr(log_level_name)
    IN IF ~in.loaderOk
       THEN Result(s0, "raised", "LoaderError", NoneConfig, "none", "none",
                   Absent, "")
       ELSE IF in.testMode
       THEN TestBranch(s1, quack_config, log_level, in, log_level_name)
       ELSE NormalBranch(s1, t, quack_config, log_level, in, log_level_name)

\* initialize_config(): _config is reset, the loader is called (and may
\* raise), the section is ensured, the level resolved, and logging set up in
\* the branch the environment selects.
initialize_config(s, t, in) ==
    LET s0 == [s EXCEPT !.config[t] = NoneConfig, !.loaderCalls[t] = @ + 1]
        quack_config == EnsureSection([in.loaded EXCEPT !.id = NewId(s)], t)
        log_level_name == LogLevelName(quack_config.section)
        log_level == LoggingGetattr(log_level_name)
    IN IF ~in.loaderOk
       THEN Result(s0, "raised", "LoaderError", NoneConfig, "none", "none",
                   Absent, "")
       ELSE IF in.testMode
       THEN TestBranch(s0, quack_config, log_level, in, log_level_name)
       ELSE NormalBranch(s0, t, quack_config, log_level, in, log_level_name)

-----------------------------------------------------------------------------
(* get_config, get_tool_config, update_tool_config *)

\* get_config without the test for a cached object.
get_config_uncached(s, t, in) ==
    LET r == initialize_config(s, t, in)
    IN IF r.outcome = "returned"
       THEN [r EXCEPT !.s.config[t] = r.cfg]
       ELSE r

\* get_config that never stores what initialize_config returned.
get_config_unstored(s, t, in) ==
    IF IsNone(s.config[t])
    THEN initialize_config(s, t, in)
    ELSE Result(s, "returned", "", s.config[t], "cached", "none", Absent, "")

\* get_config(): the cached object when there is one; otherwise
\* initialize_config() runs and what it returns is cached.  When it raises,
\* nothing is cached.
get_config(s, t, in) ==
    IF IsNone(s.config[t])
    THEN LET r == initialize_config(s, t, in)
         IN IF r.outcome = "returned"
            THEN [r EXCEPT !.s.config[t] = r.cfg]
            ELSE r
    ELSE Result(s, "returned", "", s.config[t], "cached", "none", Absent, "")

\* custom.get(tool, {}) or getattr(custom, tool, {}): the section, or an empty
\* dict when custom has none.
SectionOrEmpty(cfg) ==
    IF cfg.shape = "dict"
    THEN IF cfg.section.kind = "absent" THEN Dict(<<>>) ELSE cfg.section
    ELSE IF cfg.section.kind = "absent" THEN Dict(<<>>) ELSE cfg.section

\* get_tool_config(): get_config(), then the tool's section of what it
\* returned.
get_tool_config(s, t, in) ==
    LET r == get_config(s, t, in)
    IN IF r.outcome = "returned"
       THEN [r EXCEPT !.section = SectionOrEmpty(r.cfg)]
       ELSE r

\* UpdatedConfig that also merges into a section that is an object, keeping
\* the attributes new_config does not name.
UpdatedConfigMergesObjects(tool_config, new_config) ==
    IF tool_config.kind \in {"dict", "obj"}
    THEN Dict([k \in DOMAIN tool_config.items \cup DOMAIN new_config |->
                 IF k \in DOMAIN new_config
                 THEN new_config[k] ELSE tool_config.items[k]])
    ELSE Dict(new_config)

\* UpdatedConfig with the overlay the wrong way round: old values win.
UpdatedConfigOldWins(tool_config, new_config) ==
    IF tool_config.kind = "dict"
    THEN Dict([k \in DOMAIN tool_config.items \cup DOMAIN new_config |->
                 IF k \in DOMAIN tool_config.items
                 THEN tool_config.items[k] ELSE new_config[k]])
    ELSE Dict(new_config)

\* Lines 227-231: a dict section is copied and updated with new_config; any
\* other section is replaced by new_config.
UpdatedConfig(tool_config, new_config) ==
    IF tool_config.kind = "dict"
    THEN Dict([k \in DOMAIN tool_config.items \cup DOMAIN new_config |->
                 IF k \in DOMAIN new_config
                 THEN new_config[k] ELSE tool_config.items[k]])
    ELSE Dict(new_config)

\* Lines 234-239: the section is stored into custom, by key or by attribute.
StoreSection(cfg, section) ==
    IF cfg.shape = "dict"
    THEN [cfg EXCEPT !.section = section]
    ELSE [cfg EXCEPT !.section = section]

\* update_tool_config that re-applies a log_level found in new_config to the
\* root logger.
update_tool_config_applies_level(s, t, in, new_config) ==
    LET r1 == get_config(s, t, in)
        r2 == get_tool_config(r1.s, t, in)
        updated == UpdatedConfig(r2.section, new_config)
        cfg == StoreSection(r1.cfg, updated)
        level == IF "log_level" \in DOMAIN new_config
                 THEN CheckLevel(LoggingGetattr(new_config.log_level)).val
                 ELSE r2.s.rootLevel
    IN IF r1.outcome # "returned"
       THEN [r1 EXCEPT !.section = Absent] @@ [old |-> Absent]
       ELSE [r1 EXCEPT !.s = [r2.s EXCEPT !.config[t] = cfg,
                                          !.rootLevel = level],
                       !.cfg = cfg,
                       !.section = updated] @@ [old |-> r2.section]

\* update_tool_config(new_config): get_config(), get_tool_config(), the merge
\* and the store into the cached object.  old is the section the merge read.
update_tool_config(s, t, in, new_config) ==
    LET r1 == get_config(s, t, in)
        r2 == get_tool_config(r1.s, t, in)
        updated == UpdatedConfig(r2.section, new_config)
        cfg == StoreSection(r1.cfg, updated)
    IN IF r1.outcome # "returned"
       THEN [r1 EXCEPT !.section = Absent] @@ [old |-> Absent]
       ELSE [r1 EXCEPT !.s = [r2.s EXCEPT !.config[t] = cfg],
                       !.cfg = cfg,
                       !.section = updated] @@ [old |-> r2.section]

-----------------------------------------------------------------------------
(* Process exit *)

RECURSIVE CloseEach(_, _)
\* for handler in _file_handlers: if handler: handler.close()
CloseEach(hs, ids) ==
    IF ids = <<>> THEN hs
    ELSE CloseEach([hs EXCEPT ![Head(ids)] = Close(@)], Tail(ids))

\* close_file_handlers without the final clear() of the list.
close_file_handlers_uncleared(s, t) ==
    [s EXCEPT !.handlers = CloseEach(@, s.file_handlers[t])]

\* _close_file_handlers(): every tracked handler is closed, then the list is
\* cleared.
close_file_handlers(s, t) ==
    [s EXCEPT !.handlers = CloseEach(@, s.file_handlers[t]),
              !.file_handlers[t] = <<>>]

-----------------------------------------------------------------------------
(* What the environment can supply to a call *)

\* A host configuration source: the shape of custom, each tool's section in
\* it, and paths.logs_dir ("" when paths has no such attribute).
Source(shape, qm, qt, logs_dir) ==
    [shape |-> shape, logs_dir |-> logs_dir,
     sections |-> [t \in Tools |-> IF t = "quackmetadata" THEN qm ELSE qt]]

\* The host configurations a process may run with: custom is a dict or an
\* attribute object; a tool's section is absent, complete, partial, without
\* log_level, or an object read by attribute; log_level is a level name, a
\* name the logging module does not have, or the name of some other
\* attribute of it; paths has logs_dir or not.  The source is chosen when the
\* process starts and load_config() reads the same content every time; what
\* varies from call to call is whether the loader raises, the environment
\* marker and the filesystem.
Sources ==
    {Source("dict", Absent, Absent, ""),
     Source("attr", Absent, Absent, "/var/log/quack"),
     Source("dict", Dict(QuackMetadataConfig), Dict(QuackToolConfig), ""),
     Source("attr", Dict([a |-> 1, b |-> 2]), Dict([a |-> 1, b |-> 2]), ""),
     Source("dict", Dict([log_level |-> "bogus"]), Dict([log_level |-> "Info"]), ""),
     Source("attr", Dict([log_level |-> "debug"]), Dict([log_level |-> "DEBUG"]), ""),
     Source("dict", Dict([log_level |-> "BASIC_FORMAT"]),
            Dict([log_level |-> "raiseExceptions"]), ""),
     Source("dict", Obj([log_level |-> "DEBUG"]), Obj([a |-> 1]), "")}

\* load_config(): a new configuration object with the content of the source,
\* seen from one tool.
Loaded(t) ==
    [id |-> 0, shape |-> source.shape, section |-> source.sections[t],
     logs_dir |-> source.logs_dir]

NoInput ==
    [loaderOk |-> FALSE, loaded |-> NoneConfig, testMode |-> FALSE,
     mkdirOk |-> FALSE, openOk |-> FALSE]

\* One element for each way an initialization can go: the loader raises; or
\* it returns a configuration, PYTEST_CURRENT_TEST is set or not, mkdir works
\* or not, and in the normal branch the log file opens or not.
Inputs(t) ==
    {NoInput}
    \cup {[loaderOk |-> TRUE, loaded |-> c, testMode |-> TRUE,
           mkdirOk |-> m, openOk |-> FALSE] :
            c \in {Loaded(t)}, m \in BOOLEAN}
    \cup {[loaderOk |-> TRUE, loaded |-> c, testMode |-> FALSE,
           mkdirOk |-> f[1], openOk |-> f[2]] :
            c \in {Loaded(t)},
            f \in {<<FALSE, FALSE>>, <<TRUE, FALSE>>, <<TRUE, TRUE>>}}

\* Partial mappings a caller may pass to update_tool_config().
Partials == {[b |-> 3, c |-> 4], [log_level |-> "DEBUG"]}

TotalLoads == loaderCalls["quackmetadata"] + loaderCalls["quacktool"]

\* A call that finds the singleton set makes no use of the environment.
InputsFor(t) == IF IsNone(config[t]) THEN Inputs(t) ELSE {NoInput}

CanCall(t) == running /\ (IsNone(config[t]) => TotalLoads < MaxLoads)

-----------------------------------------------------------------------------
(* Actions *)

Apply(s) ==
    /\ config' = s.config
    /\ rootLevel' = s.rootLevel
    /\ rootHandlers' = s.rootHandlers
    /\ handlers' = s.handlers
    /\ file_handlers' = s.file_handlers
    /\ loaderCalls' = s.loaderCalls

Call(op, t, r, old, arg) ==
    [op |-> op, tool |-> t, outcome |-> r.outcome, exc |-> r.exc,
     ret |-> r.cfg.id, cfg |-> r.cfg, branch |-> r.branch, fs |-> r.fs,
     loaded |-> r.loaded, level_name |-> r.level_name,
     section |-> r.section, old |-> old, arg |-> arg]

NoResult == Result(Cur, "returned", "", NoneConfig, "none", "none", Absent, "")

Init ==
    /\ config = [t \in Tools |-> NoneConfig]
    /\ rootLevel = WARNING
    /\ rootHandlers = <<>>
    /\ handlers = <<>>
    /\ file_handlers = [t \in Tools |-> <<>>]
    /\ loaderCalls = [t \in Tools |-> 0]
    /\ updates = 0
    /\ running = TRUE
    /\ atexitPending = Tools
    /\ source \in Sources
    /\ last = [op |-> "start", tool |-> "", outcome |-> "returned", exc |-> "",
               ret |-> 0, cfg |-> NoneConfig, branch |-> "none", fs |-> "none",
               loaded |-> Absent, level_name |-> "", section |-> Absent,
               old |-> Absent, arg |-> <<>>]

InitializeConfig(t) ==
    /\ running
    /\ TotalLoads < MaxLoads
    /\ \E in \in Inputs(t) :
         \E r \in {initialize_config(Cur, t, in)} :
            /\ Apply(r.s)
            /\ last' = Call("initialize_config", t, r, Absent, <<>>)
    /\ UNCHANGED <<updates, running, atexitPending, source>>

GetConfig(t) ==
    /\ CanCall(t)
    /\ \E in \in InputsFor(t) :
         \E r \in {get_config(Cur, t, in)} :
            /\ Apply(r.s)
            /\ last' = Call("get_config", t, r, Absent, <<>>)
    /\ UNCHANGED <<updates, running, atexitPending, source>>

GetToolConfig(t) ==
    /\ CanCall(t)
    /\ \E in \in InputsFor(t) :
         \E r \in {get_tool_config(Cur, t, in)} :
            /\ Apply(r.s)
            /\ last' = Call("get_tool_config", t, r, Absent, <<>>)
    /\ UNCHANGED <<updates, running, atexitPending, source>>

UpdateToolConfig(t) ==
    /\ CanCall(t)
    /\ updates < MaxUpdates
    /\ \E in \in InputsFor(t), new_config \in Partials :
         \E r \in {update_tool_config(Cur, t, in, new_config)} :
            /\ Apply(r.s)
            /\ last' = Call("update_tool_config", t, r, r.old, new_config)
    /\ updates' = updates + 1
    /\ UNCHANGED <<running, atexitPending, source>>

\* get_logger(): logging.getLogger(<tool>), which touches nothing here.
GetLogger(t) ==
    /\ running
    /\ last' = Call("get_logger", t, NoResult, Absent, <<>>)
    /\ UNCHANGED <<config, rootLevel, rootHandlers, handlers, file_handlers,
                   loaderCalls, updates, running, atexitPending, source>>

\* The interpreter starts to exit: no more calls, the atexit functions run.
Exit ==
    /\ running
    /\ running' = FALSE
    /\ last' = Call("exit", "", NoResult, Absent, <<>>)
    /\ UNCHANGED <<config, rootLevel, rootHandlers, handlers, file_handlers,
                   loaderCalls, updates, atexitPending, source>>

\* The atexit function of one module runs.
CloseFileHandlers(t) ==
    /\ ~running
    /\ t \in atexitPending
    /\ Apply(close_file_handlers(Cur, t))
    /\ atexitPending' = atexitPending \ {t}
    /\ last' = Call("_close_file_handlers", t, NoResult, Absent, <<>>)
    /\ UNCHANGED <<updates, running, source>>

Next ==
    \/ \E t \in Tools : InitializeConfig(t)
    \/ \E t \in Tools : GetConfig(t)
    \/ \E t \in Tools : GetToolConfig(t)
    \/ \E t \in Tools : UpdateToolConfig(t)
    \/ \E t \in Tools : GetLogger(t)
    \/ Exit
    \/ \E t \in Tools : CloseFileHandlers(t)

Spec == Init /\ [][Next]_vars

-----------------------------------------------------------------------------
(* Vocabulary of the properties *)

\* Positions in the root logger's handler list that hold a file handler,
\* and those that hold a console handler, now and after the step.
AttachedFile ==
    {j \in DOMAIN rootHandlers : IsFileHandler(handlers[rootHandlers[j]])}

AttachedConsole ==
    {j \in DOMAIN rootHandlers : IsConsoleHandler(handlers[rootHandlers[j]])}

AttachedFileAfter ==
    {j \in DOMAIN rootHandlers' : IsFileHandler(handlers'[rootHandlers'[j]])}

AttachedConsoleAfter ==
    {j \in DOMAIN rootHandlers' : IsConsoleHandler(handlers'[rootHandlers'[j]])}

FileHandlerIds == {i \in DOMAIN handlers : IsFileHandler(handlers[i])}

\* The tool whose initialization created a file handler.
Owner(i) == handlers[i].baseFilename[2]

\* The last call ran the initialization sequence (it did not find a cached
\* singleton) and got past the loader.
Initialized == last.branch \in {"test", "normal"}

InitOps == {"initialize_config", "get_config", "get_tool_config", "update_tool_config"}

-----------------------------------------------------------------------------
(* C1 *)

\* C1: after any sequence of initializations of either tool, in either
\* branch, whatever the filesystem does, the root logger has at most one file
\* handler and at most one console handler attached.
C1_AtMostOneFileAndOneConsole ==
    /\ Cardinality(AttachedFile) <= 1
    /\ Cardinality(AttachedConsole) <= 1

\* Two initializations have run, the second replaced the file handler of the
\* first, and the root logger has one handler of each kind.
C1_Witness ==
    /\ TotalLoads >= 2
    /\ Cardinality(AttachedFile) = 1
    /\ Cardinality(AttachedConsole) = 1
    /\ \E i \in FileHandlerIds : handlers[i].closed

-----------------------------------------------------------------------------
(* C2 *)

\* C2: a get_config() call that finds the singleton set returns that very
\* object and repeats nothing of the initialization: the loader is not
\* called, the singleton, the root logger's level and handlers, the handler
\* objects and the registries are as before.
C2_CachedGetRepeatsNothing ==
    [][\A t \in Tools :
         (last'.op = "get_config" /\ last'.tool = t /\ ~IsNone(config[t]))
         => /\ last'.outcome = "returned"
            /\ last'.ret = config[t].id
            /\ config' = config
            /\ loaderCalls' = loaderCalls
            /\ rootLevel' = rootLevel
            /\ rootHandlers' = rootHandlers
            /\ handlers' = handlers
            /\ file_handlers' = file_handlers]_vars

\* A second get_config() has returned the object the first one cached, after
\* one load and with the console and file handlers of that one
\* initialization.
C2_Witness ==
    /\ last.op = "get_config"
    /\ last.branch = "cached"
    /\ last.ret = config[last.tool].id
    /\ loaderCalls[last.tool] = 1
    /\ Cardinality(AttachedFile) = 1
    /\ Cardinality(AttachedConsole) = 1

-----------------------------------------------------------------------------
(* C3 *)

\* C3: when the logs directory cannot be created, get_config() still returns
\* a configuration object, no exception escapes, and a console handler is
\* attached to the root logger and no file handler.
C3_MkdirFailureDegrades ==
    (last.op = "get_config" /\ last.fs = "mkdir_failed")
    => /\ last.outcome = "returned"
       /\ ~IsNone(config[last.tool])
       /\ AttachedConsole # {}
       /\ AttachedFile = {}

-----------------------------------------------------------------------------
(* C4 *)

NoDuplicates(seq) == \A i, j \in DOMAIN seq : seq[i] = seq[j] => i = j

\* C4 as stated: close() is called on a tracked handle exactly once, by a
\* later initialization or by the exit cleanup and not by both, and no handle
\* is tracked twice.
C4_ClosedByOneOnly ==
    /\ \A t \in Tools : NoDuplicates(file_handlers[t])
    /\ \A i \in FileHandlerIds :
         /\ handlers[i].closeCalls <= 1
         /\ Owner(i) \notin atexitPending => handlers[i].closeCalls = 1

\* C4 (amended): a tracked handle gives up its file exactly once, by a later
\* initialization or by the exit cleanup of its tool, and has done so once
\* that cleanup has run; close() is called on it at most twice, the second
\* time by the cleanup on a handle that is already closed; no handle is in a
\* registry twice, and every file handler was tracked when it was created.
C4_ReleasedExactlyOnce ==
    /\ \A t \in Tools : NoDuplicates(file_handlers[t])
    /\ \A i \in FileHandlerIds :
         /\ handlers[i].releases <= 1
         /\ handlers[i].closeCalls <= 2
         /\ handlers[i].closeCalls >= 1 => handlers[i].releases = 1
         /\ handlers[i].closeCalls = 2 => Owner(i) \notin atexitPending
         /\ Owner(i) \in atexitPending
              => \E j \in DOMAIN file_handlers[Owner(i)] :
                    file_handlers[Owner(i)][j] = i
         /\ Owner(i) \notin atexitPending
              => handlers[i].releases = 1 /\ ~IsOpen(handlers[i])

\* Both cleanups have run; one handle was closed by a later initialization
\* and again by the cleanup, another by the cleanup alone.
C4_Witness ==
    /\ atexitPending = {}
    /\ \E i, j \in FileHandlerIds :
         /\ handlers[i].closeCalls = 2 /\ handlers[i].releases = 1
         /\ handlers[j].closeCalls = 1 /\ handlers[j].releases = 1

-----------------------------------------------------------------------------
(* C5 *)

\* C5: each singleton is None at the start; it becomes set only in a call
\* that goes through get_config() and whose initialization succeeds, and every
\* get_config() that returns leaves it set; once set it becomes None again
\* only in an initialize_config() call of its tool, never in get_config,
\* get_tool_config, update_tool_config or get_logger.
C5_SingletonLifecycle ==
    /\ \A t \in Tools : IsNone(config[t])
    /\ [][\A t \in Tools :
            /\ (IsNone(config[t]) /\ ~IsNone(config'[t]))
               => /\ last'.op \in {"get_config", "get_tool_config",
                                   "update_tool_config"}
                  /\ last'.tool = t
                  /\ last'.outcome = "returned"
                  /\ last'.branch \in {"test", "normal"}
            /\ (last'.op = "get_config" /\ last'.tool = t
                /\ last'.outcome = "returned")
               => ~IsNone(config'[t])
            /\ (~IsNone(config[t]) /\ IsNone(config'[t]))
               => last'.op = "initialize_config" /\ last'.tool = t
            /\ (~IsNone(config[t]) /\ last'.op \in {"get_config",
                   "get_tool_config", "update_tool_config", "get_logger"})
               => /\ ~IsNone(config'[t])
                  /\ config'[t].id = config[t].id]_vars

\* update_tool_config() has run on a singleton that was already set, and the
\* singleton is still set.
C5_Witness ==
    /\ last.op = "update_tool_config"
    /\ last.branch = "cached"
    /\ ~IsNone(config[last.tool])
    /\ last.ret = config[last.tool].id

-----------------------------------------------------------------------------
(* C6 *)

\* C6: update_tool_config(partial) on a dict section leaves a dict whose keys
\* are the old keys and partial's keys, partial's values on partial's keys
\* and the old values elsewhere; the section it merged into is the one the
\* cached object held; and a get_tool_config() that follows returns exactly
\* the merged mapping.
C6_MergeThenGet ==
    /\ [](\A t \in Tools :
            (last.op = "update_tool_config" /\ last.tool = t
             /\ last.outcome = "returned" /\ last.old.kind = "dict")
            => LET new == config[t].section
               IN /\ new.kind = "dict"
                  /\ DOMAIN new.items = DOMAIN last.old.items \cup DOMAIN last.arg
                  /\ \A k \in DOMAIN last.arg : new.items[k] = last.arg[k]
                  /\ \A k \in DOMAIN last.old.items \ DOMAIN last.arg :
                        new.items[k] = last.old.items[k])
    /\ [][\A t \in Tools :
            /\ (last'.op = "update_tool_config" /\ last'.tool = t
                /\ ~IsNone(config[t]))
               => last'.old = config[t].section
            /\ (last.op = "update_tool_config" /\ last.tool = t
                /\ last.outcome = "returned"
                /\ last'.op = "get_tool_config" /\ last'.tool = t)
               => /\ last'.outcome = "returned"
                  /\ last'.section = config[t].section]_vars

\* The example of the specification: {a: 1, b: 2} updated with {b: 3, c: 4}
\* has become {a: 1, b: 3, c: 4}.
C6_Witness ==
    /\ last.op = "update_tool_config"
    /\ last.old = Dict([a |-> 1, b |-> 2])
    /\ last.arg = [b |-> 3, c |-> 4]
    /\ config[last.tool].section = Dict([a |-> 1, b |-> 3, c |-> 4])

-----------------------------------------------------------------------------
(* C7 *)

\* C7: an initialization that reads a level name the level table does not
\* have sets the root logger to INFO and raises neither TypeError nor
\* ValueError.
C7_UnknownLevelFallsBackToInfo ==
    (Initialized /\ last.level_name \notin StandardLevelNames)
    => /\ last.exc \notin {"TypeError", "ValueError"}
       /\ rootLevel = INFO

-----------------------------------------------------------------------------
(* C8 *)

\* C8: when the host configuration has no section for the tool, then under
\* either shape of custom the first get_config() leaves the section equal to
\* the defaults of the tool's settings model, with log_level "INFO", and
\* get_tool_config() returns exactly that mapping as long as nothing has been
\* updated.
C8_AbsentSectionGetsDefaults ==
    \A t \in Tools :
      LET defaults == IF t = "quackmetadata"
                      THEN Dict(QuackMetadataConfig) ELSE Dict(QuackToolConfig)
      IN /\ (last.op = "get_config" /\ last.tool = t /\ Initialized
             /\ last.outcome = "returned" /\ last.loaded = Absent)
            => /\ config[t].section = defaults
               /\ config[t].section.items["log_level"] = "INFO"
         /\ (last.op = "get_tool_config" /\ last.tool = t
             /\ last.outcome = "returned" /\ source.sections[t] = Absent
             /\ updates = 0)
            => /\ last.section = defaults
               /\ last.section.items["log_level"] = "INFO"

\* custom is an attribute object without the tool's attribute, and
\* get_tool_config() has returned the defaults from the cached object.
C8_Witness ==
    /\ last.op = "get_tool_config"
    /\ last.branch = "cached"
    /\ source.shape = "attr"
    /\ source.sections[last.tool] = Absent
    /\ last.section = Dict(ModelDump(last.tool))
    /\ last.section.items["log_level"] = "INFO"

-----------------------------------------------------------------------------
(* C9 *)

\* C9: the configuration object an initialization returns has a section for
\* the tool that contains every field of the tool's settings model.
C9_SectionHoldsEveryField ==
    \A t \in Tools :
      (last.op \in {"initialize_config", "get_config"} /\ last.tool = t
       /\ Initialized /\ last.outcome = "returned")
      => /\ last.cfg.section.kind # "absent"
         /\ DOMAIN ModelDump(t) \subseteq DOMAIN last.cfg.section.items

-----------------------------------------------------------------------------
(* C10 *)

\* C10: a normal-branch initialization in which the log file cannot be opened
\* still returns the configuration object, leaves no file handler and a
\* console handler on the root logger, and appends nothing to a registry.
C10_OpenFailureDegrades ==
    [][(last'.op \in InitOps /\ last'.fs = "open_failed")
       => /\ last'.outcome = "returned"
          /\ last'.branch = "normal"
          /\ last'.ret # 0
          /\ AttachedFileAfter = {}
          /\ AttachedConsoleAfter # {}
          /\ file_handlers' = file_handlers]_vars

\* The open failed in a re-initialization: the file handler of the earlier
\* one was removed and closed, nothing replaced it, the console handler stays.
C10_Witness ==
    /\ last.fs = "open_failed"
    /\ last.outcome = "returned"
    /\ AttachedFile = {}
    /\ Cardinality(AttachedConsole) = 1
    /\ \E i \in FileHandlerIds : handlers[i].closed

-----------------------------------------------------------------------------
(* C11 *)

\* C11: when the loader raises in get_config() or initialize_config(), the
\* error reaches the caller, the tool's singleton is None afterwards, the
\* root logger's level and handlers, the handler objects and the registries
\* are as before the call, and a get_config() that follows calls the loader
\* again.
C11_LoaderErrorPropagates ==
    [][\A t \in Tools :
         /\ (last'.op \in InitOps /\ last'.tool = t
             /\ loaderCalls'[t] = loaderCalls[t] + 1
             /\ last'.branch = "none")
            => /\ last'.outcome = "raised"
               /\ last'.exc = "LoaderError"
               /\ last'.ret = 0
               /\ IsNone(config'[t])
               /\ rootLevel' = rootLevel
               /\ rootHandlers' = rootHandlers
               /\ handlers' = handlers
               /\ file_handlers' = file_handlers
         /\ (last'.exc = "LoaderError" /\ last'.tool = t)
            => last'.outcome = "raised" /\ IsNone(config'[t])
         /\ (last.exc = "LoaderError" /\ last.tool = t
             /\ last'.op = "get_config" /\ last'.tool = t)
            => loaderCalls'[t] = loaderCalls[t] + 1]_vars

\* The loader raised in a re-initialization: the logging set up by the
\* earlier one is still in place and the singleton is None.
C11_Witness ==
    /\ last.op = "initialize_config"
    /\ last.exc = "LoaderError"
    /\ loaderCalls[last.tool] = 2
    /\ IsNone(config[last.tool])
    /\ \E j \in AttachedFile : IsOpen(handlers[rootHandlers[j]])

-----------------------------------------------------------------------------
(* C12 *)

\* Ids of the handlers attached to the root logger before the step.
RootIdsBefore == {rootHandlers[j] : j \in DOMAIN rootHandlers}

RootIdsAfter == {rootHandlers'[j] : j \in DOMAIN rootHandlers'}

\* The level an initialization sets when it read the level name of the call.
ResolvedLevel(call) == CheckLevel(LoggingGetattr(call.level_name)).val

\* C12 as stated: an initialization under the test marker that returns has
\* set the root logger's level, has created no file handler, has left every
\* file handler that was attached attached and open, and has left the
\* registries as they were.
C12_TestBranchLeavesFileHandlers ==
    [][(last'.op \in InitOps /\ last'.branch = "test"
        /\ last'.outcome = "returned")
       => /\ rootLevel' = ResolvedLevel(last')
          /\ \A i \in DOMAIN handlers' \ DOMAIN handlers :
                ~IsFileHandler(handlers'[i])
          /\ \A i \in RootIdsBefore :
                IsFileHandler(handlers[i])
                => i \in RootIdsAfter /\ IsOpen(handlers'[i])
          /\ file_handlers' = file_handlers]_vars

\* C12 (amended): an initialization under the test marker that gets past the
\* loader creates and attaches no file handler and leaves the registries
\* unchanged, but it removes from the root logger and closes every handler
\* that was attached before the call, file handlers included (they stay
\* listed in their registry, closed), and attaches one new console handler;
\* handlers that were not attached are untouched; when the call returns, the
\* root logger's level is the resolved level.
C12_TestBranchResetsHandlers ==
    [][(last'.op \in InitOps /\ last'.branch = "test")
       => /\ file_handlers' = file_handlers
          /\ Len(handlers') = Len(handlers) + 1
          /\ IsConsoleHandler(handlers'[Len(handlers')])
          /\ ~handlers'[Len(handlers')].closed
          /\ rootHandlers' = <<Len(handlers')>>
          /\ \A i \in DOMAIN handlers :
                IF i \in RootIdsBefore
                THEN /\ handlers'[i].closed
                     /\ ~IsOpen(handlers'[i])
                     /\ handlers'[i].closeCalls = handlers[i].closeCalls + 1
                ELSE handlers'[i] = handlers[i]
          /\ last'.outcome = "returned" => rootLevel' = ResolvedLevel(last')]_vars

\* A test-branch initialization has followed a normal one: the file handler
\* of the first is detached and closed but still in its registry, and the
\* only handler on the root logger is the new console handler.
C12_Witness ==
    /\ running
    /\ TotalLoads = 2
    /\ last.branch = "test"
    /\ Len(handlers) = 3
    /\ rootHandlers = <<3>>
    /\ IsFileHandler(handlers[2])
    /\ handlers[2].closed
    /\ \E t \in Tools : file_handlers[t] = <<2>>

-----------------------------------------------------------------------------
(* C13 *)

\* Positions of a tool's registry that hold a handle still open.
OpenEntries(t) ==
    {j \in DOMAIN file_handlers[t] : IsOpen(handlers[file_handlers[t][j]])}

\* C13: a tool's registry never holds more entries than the tool has run
\* initializations, and at most one of its entries is an open handle.
C13_RegistryBounded ==
    \A t \in Tools :
      /\ Len(file_handlers[t]) <= loaderCalls[t]
      /\ Cardinality(OpenEntries(t)) <= 1

\* One tool has initialized twice and opened a log file both times: its
\* registry has two entries, the first closed, the second open.
C13_Witness ==
    \E t \in Tools :
      /\ running
      /\ loaderCalls[t] = 2
      /\ Len(file_handlers[t]) = 2
      /\ OpenEntries(t) = {2}

-----------------------------------------------------------------------------
(* C14 *)

\* C14: update_tool_config(partial) called while the singleton is set changes
\* only the tool's section inside the cached object: the object keeps its
\* identity and everything but that section, the loader is not invoked, and
\* the root logger's level, its handlers and the registries stay as they
\* were, also when the partial changes log_level.
C14_CachedUpdateTouchesSectionOnly ==
    [][\A t \in Tools :
         (last'.op = "update_tool_config" /\ last'.tool = t
          /\ ~IsNone(config[t]))
         => /\ last'.outcome = "returned"
            /\ config'[t].id = config[t].id
            /\ last'.ret = config[t].id
            /\ config'[t] = [config[t] EXCEPT !.section = config'[t].section]
            /\ \A u \in Tools \ {t} : config'[u] = config[u]
            /\ loaderCalls' = loaderCalls
            /\ rootLevel' = rootLevel
            /\ rootHandlers' = rootHandlers
            /\ handlers' = handlers
            /\ file_handlers' = file_handlers]_vars

\* A cached configuration has been updated with a partial that set log_level
\* to DEBUG where it was something else, under a root logger that is not at
\* DEBUG and has a file handler of the tool attached.
C14_Witness ==
    /\ last.op = "update_tool_config"
    /\ last.branch = "cached"
    /\ last.arg = [log_level |-> "DEBUG"]
    /\ last.old.kind = "dict"
    /\ "log_level" \in DOMAIN last.old.items
    /\ last.old.items.log_level # "DEBUG"
    /\ config[last.tool].section.items.log_level = "DEBUG"
    /\ rootLevel # DEBUG
    /\ file_handlers[last.tool] # <<>>

-----------------------------------------------------------------------------
(* C15 *)

\* File handlers attached to the root logger in state record s.
AttachedFileIn(s) == {i \in RootIds(s) : IsFileHandler(s.handlers[i])}

\* The statements of the normal-branch initialization that the step to the
\* primed state has run for tool t, from the state before the step.
StepsOf(t) ==
    NormalBranchSteps(
        [Cur EXCEPT !.config[t] = NoneConfig, !.loaderCalls[t] = @ + 1],
        t, EnsureSection([Loaded(t) EXCEPT !.id = NewId(Cur)], t), rootLevel',
        [NoInput EXCEPT !.mkdirOk = last'.fs # "mkdir_failed",
                        !.openOk = last'.fs = "open_ok"])

\* C15: within one normal-branch initialization every file handler attached
\* on entry is removed and closed before the new log file is opened and
\* attached; after no statement of it are two file handlers attached; and no
\* file handler attached on entry is attached or open at the end.
C15_OldRemovedBeforeNewOpened ==
    [][\A t \in Tools :
         (last'.op \in InitOps /\ last'.tool = t /\ last'.branch = "normal"
          /\ last'.fs # "none")
         => LET steps == StepsOf(t)
                fin == steps[Len(steps)]
                entry == AttachedFileIn(Cur)
            IN /\ fin.rootLevel = rootLevel'
               /\ fin.rootHandlers = rootHandlers'
               /\ fin.handlers = handlers'
               /\ fin.file_handlers = file_handlers'
               /\ \A k \in DOMAIN steps :
                    /\ Cardinality(AttachedFileIn(steps[k])) <= 1
                    /\ (\E i \in DOMAIN steps[k].handlers \ DOMAIN handlers :
                           IsFileHandler(steps[k].handlers[i]))
                       => \A e \in entry :
                            /\ e \notin RootIds(steps[k])
                            /\ ~IsOpen(steps[k].handlers[e])
               /\ \A e \in entry :
                    /\ e \notin RootIdsAfter
                    /\ ~IsOpen(handlers'[e])]_vars

\* A normal-branch initialization found a file handler attached and opened a
\* new log file: the old handler is closed and detached, the new one is the
\* last handler made and the only file handler attached.
C15_Witness ==
    /\ last.op \in InitOps
    /\ last.branch = "normal"
    /\ last.fs = "open_ok"
    /\ AttachedFileIn(Cur) = {Len(handlers)}
    /\ \E e \in FileHandlerIds :
         /\ e < Len(handlers)
         /\ handlers[e].closeCalls = 1
         /\ handlers[e].releases = 1

-----------------------------------------------------------------------------
(* C16 *)

\* C16: when the tool's current section is not a mapping but an object with
\* attributes, update_tool_config(partial) makes the partial itself the new
\* section: the section read back is exactly the partial, and no field of
\* the previous section that the partial lacks is in it.
C16_ObjectSectionReplaced ==
    /\ [](\A t \in Tools :
            (last.op = "update_tool_config" /\ last.tool = t
             /\ last.outcome = "returned" /\ last.old.kind = "obj")
            => /\ config[t].section = Dict(last.arg)
               /\ last.section = Dict(last.arg)
               /\ \A k \in DOMAIN last.old.items \ DOMAIN last.arg :
                    k \notin DOMAIN config[t].section.items)
    /\ [][\A t \in Tools :
            (last'.op = "update_tool_config" /\ last'.tool = t
             /\ ~IsNone(config[t]))
            => last'.old = config[t].section]_vars

\* A section that was an object with the attribute log_level has been updated
\* with {b: 3, c: 4}: the section is now that mapping and log_level is gone.
C16_Witness ==
    /\ last.op = "update_tool_config"
    /\ last.outcome = "returned"
    /\ last.old.kind = "obj"
    /\ "log_level" \in DOMAIN last.old.items
    /\ last.arg = [b |-> 3, c |-> 4]
    /\ DOMAIN config[last.tool].section.items = {"b", "c"}

-----------------------------------------------------------------------------
(* C17 *)

\* Ids listed in tool t's registry before the step.
Tracked(t) == {file_handlers[t][j] : j \in DOMAIN file_handlers[t]}

\* C17: the exit cleanup of a tool calls close() on every handle of its
\* registry, open or closed; an open handle gives up its file, a closed one
\* is left as it was and no error is raised; afterwards the registry is
\* empty and no handle that was in it is open.  Nothing else changes.
C17_CleanupClosesAllAndClears ==
    [][\A t \in Tools :
         (last'.op = "_close_file_handlers" /\ last'.tool = t)
         => /\ last'.outcome = "returned"
            /\ file_handlers'[t] = <<>>
            /\ DOMAIN handlers' = DOMAIN handlers
            /\ \A i \in Tracked(t) :
                 /\ handlers'[i].closeCalls = handlers[i].closeCalls + 1
                 /\ ~IsOpen(handlers'[i])
                 /\ IsOpen(handlers[i])
                      => handlers'[i].releases = handlers[i].releases + 1
                 /\ ~IsOpen(handlers[i])
                      => handlers'[i] = [handlers[i] EXCEPT !.closeCalls = @ + 1]
            /\ \A i \in DOMAIN handlers \ Tracked(t) : handlers'[i] = handlers[i]
            /\ \A u \in Tools \ {t} : file_handlers'[u] = file_handlers[u]
            /\ rootHandlers' = rootHandlers
            /\ rootLevel' = rootLevel
            /\ config' = config]_vars

\* The cleanup of a tool has just run over a registry of two handles, one
\* closed earlier by a second initialization and one still open: each has
\* given up its file once, the registry is empty.
C17_Witness ==
    /\ last.op = "_close_file_handlers"
    /\ file_handlers[last.tool] = <<>>
    /\ \E i, j \in FileHandlerIds :
         /\ Owner(i) = last.tool /\ Owner(j) = last.tool
         /\ handlers[i].closeCalls = 2 /\ handlers[i].releases = 1
         /\ handlers[j].closeCalls = 1 /\ handlers[j].releases = 1
         /\ ~IsOpen(handlers[i]) /\ ~IsOpen(handlers[j])

-----------------------------------------------------------------------------
(* C18 *)

\* C18: between operations, every handle listed in a registry that is still
\* open is attached to the root logger; no open file handle is detached.
C18_OpenHandlesAreAttached ==
    \A t \in Tools :
      \A i \in Tracked(t) :
        IsOpen(handlers[i]) => i \in RootIds(Cur)

\* Two initializations have each opened a log file: the later handle is open
\* and attached, the earlier one is listed in a registry, detached and closed.
C18_Witness ==
    /\ running
    /\ \E t \in Tools :
         \E i \in Tracked(t) : IsOpen(handlers[i]) /\ i \in RootIds(Cur)
    /\ \E u \in Tools :
         \E j \in Tracked(u) : ~IsOpen(handlers[j]) /\ j \notin RootIds(Cur)

-----------------------------------------------------------------------------
(* C19 *)

\* Ids listed in tool t's registry after the step.
TrackedAfter(t) == {file_handlers'[t][j] : j \in DOMAIN file_handlers'[t]}

\* C19: a normal-branch initialization of one tool removes and closes the
\* file handler the other tool had attached; that handler stays listed,
\* closed, in the other tool's registry, which is not touched; every file
\* handler on the root logger afterwards is the initializing tool's, and when
\* its log file opened there is exactly one, listed in its own registry only.
C19_LaterToolReplacesEarlier ==
    [][\A t \in Tools :
         (last'.op \in InitOps /\ last'.tool = t /\ last'.branch = "normal"
          /\ last'.fs # "none")
         => /\ \A i \in AttachedFileIn(Cur) :
                 Owner(i) # t
                 => /\ i \notin RootIdsAfter
                    /\ ~IsOpen(handlers'[i])
                    /\ handlers'[i].closeCalls = handlers[i].closeCalls + 1
                    /\ i \in TrackedAfter(Owner(i))
            /\ \A u \in Tools \ {t} : file_handlers'[u] = file_handlers[u]
            /\ \A j \in AttachedFileAfter :
                 handlers'[rootHandlers'[j]].baseFilename[2] = t
            /\ last'.fs = "open_ok"
               => /\ Cardinality(AttachedFileAfter) = 1
                  /\ Len(handlers') \in RootIdsAfter
                  /\ Len(handlers') \in TrackedAfter(t)
                  /\ \A u \in Tools \ {t} : Len(handlers') \notin TrackedAfter(u)]_vars

\* Both tools have initialized in the normal branch, each opening its log
\* file: the root logger's only file handler is the later tool's and is open;
\* the earlier tool's handle is closed, detached and still in its registry.
C19_Witness ==
    /\ running
    /\ last.op \in InitOps /\ last.branch = "normal" /\ last.fs = "open_ok"
    /\ \E i \in FileHandlerIds :
         /\ AttachedFileIn(Cur) = {i}
         /\ Owner(i) = last.tool
         /\ IsOpen(handlers[i])
         /\ file_handlers[last.tool] = <<i>>
    /\ \E u \in Tools \ {last.tool} :
         \E j \in FileHandlerIds :
           /\ file_handlers[u] = <<j>>
           /\ Owner(j) = u
           /\ ~IsOpen(handlers[j])
           /\ handlers[j].closeCalls = 1
           /\ j \notin RootIds(Cur)

====
